---- MODULE Spec2Model ----
(***************************************************************************)
(* Snowstorm "Directed" conflict-graph consensus (package snowstorm,       *)
(* src/unnamed/part_001).  The engine state is gathered in a record S so   *)
(* that the handlers, which call each other recursively (accept -> reject  *)
(* -> rejector -> reject ...), are operators from state to state; an       *)
(* action applies one whole public operation (Add or RecordPoll).          *)
(***************************************************************************)
EXTENDS Integers, Sequences, FiniteSets, TLC

\* ---------------------------------------------------------------- bounds
NumTx == 3
NumUtxo == 2
MaxVote == 3
MaxDeps == 1
MaxFaulty == 1      \* transactions whose callbacks fail
MaxIssue == 2       \* Issue events of one transaction
MaxAfterFail == 2   \* operations followed after a failed callback
MaxDepsErr == 0     \* dependency edges in runs with failing callbacks
NumVtx == 2         \* vertices given to the DAG
MaxParam == 2       \* each parameter given to Initialize is in 0..MaxParam
NumTxFew == 2       \* transactions in the runs with BetaVirtuous = 2
MaxVoteLong == 4    \* polls in the runs with BetaVirtuous = 2

Tx == 1..NumTx
Vtx == 1..NumVtx
Utxo == 1..NumUtxo

Processing == "Processing"
Accepted == "Accepted"
Rejected == "Rejected"

VARIABLES
    inputs,         \* Tx.InputIDs(): the UTXOs each transaction consumes
    deps,           \* Tx.Dependencies()
    status,         \* Tx.Status()
    txs,            \* keys of dg.txs: the transactions with a node in the graph
    fn,             \* the directedTx node objects (they outlive their map entry)
    utxos,          \* dg.utxos: UTXO -> spenders ({} = no entry)
    preferences, virtuous, virtuousVoting,
    currentVote,
    pendingAccept,  \* events.Blocker: id -> accepters blocked on it
    pendingReject,  \* events.Blocker: id -> rejectors blocked on it
    aDeps,          \* directedAccepter.deps, per owning transaction
    aRejected,      \* directedAccepter.rejected
    rRejected,      \* directedRejector.rejected
    panicked,       \* "" or the place of a nil-pointer panic
    staleUpdate,    \* an accepter ran its acceptance steps for a tx without a node
    created,        \* the transactions 1..created have been presented to Add
    together,       \* history: pairs of transactions that had a node at the same time
    hist,           \* whether the history variables below are recorded
    winStreak,      \* history: consecutive polls whose only winner is winTx
    winTx,
    winConf,        \* history: graph conflicts of winTx when the streak began
    winDepsOK,      \* history: winTx's dependencies were all Accepted then
    fullStreak,     \* history: consecutive polls, since the last new transaction, that gave
                    \* every transaction given to the engine Alpha votes
    addAfterPoll,   \* history: a node was inserted after some poll
    events,         \* DecisionDispatcher: the events received, per transaction
    faulty,         \* the transactions whose Accept()/Reject() return an error
    errs,           \* dg.errs.Err: 0 (nil) or the transaction whose callback failed
    ret,            \* the value returned by the last Add or RecordPoll (0 = nil)
    failed,         \* history: the first transaction whose callback failed (0 = none)
    faults,         \* whether callers present transactions with failing callbacks
    obs,            \* which observation variables are recorded: "" (none), "op"
                    \* (lastOp) or "gap" (missed and regained)
    lastOp,         \* observation: the kind of the last operation
    missed,         \* observation: nodes that were not winners of the last poll
    regained,       \* observation: winners of the last poll that had missed one
    afterFail,      \* history: operations begun after a callback had failed
    logged,         \* whether the log variables below are recorded
    registered,     \* log: the accepters registered with pendingAccept, per transaction
    deferLog,       \* log: the node and the poll as deferAcceptance found them
    opEvents,       \* log: the events of the last operation, in order
    streak,         \* log: consecutive polls, up to the last one, won by each node
    wins,           \* log: polls won by each node since its Add
    vtxTxs,         \* Vertex.Txs(), per vertex given to the DAG
    vtxParents,     \* Vertex.Parents()
    vtxStatus,      \* Vertex.Status()
    vcreated,       \* the vertices 1..vcreated have been given to the DAG's Add
    preferencesV,   \* the DAG's preferences (vertex ids)
    params,         \* dg.params: the parameters given to Initialize
    initialized     \* Initialize has returned: dg.utxos and dg.txs are allocated

vars == <<inputs, deps, status, txs, fn, utxos, preferences, virtuous,
          virtuousVoting, currentVote, pendingAccept, pendingReject, aDeps,
          aRejected, rRejected, panicked, staleUpdate, created, together, hist, winStreak,
          winTx, winConf, winDepsOK, fullStreak, addAfterPoll, events, faulty,
          errs, ret, failed, faults, obs, lastOp, missed, regained, afterFail,
          logged, registered, deferLog, opEvents, streak, wins, vtxTxs, vtxParents, vtxStatus,
          vcreated, preferencesV, params, initialized>>

\* The variables of the vertex DAG and of Initialize.
dagVars == <<vtxTxs, vtxParents, vtxStatus, vcreated, preferencesV>>
paramVars == <<params, initialized>>

\* ------------------------------------------------------------ parameters
\* snowball.Parameters is a run-time value: the engine reads the fields of the
\* argument Initialize stored.
Alpha == params.Alpha
BetaVirtuous == params.BetaVirtuous
BetaRogue == params.BetaRogue
K == params.K
Parents == params.Parents
BatchSize == params.BatchSize
ConcurrentRepolls == params.ConcurrentRepolls

\* The zero value of a directedTx.
ZeroNode == [bias |-> 0, confidence |-> 0, lastVote |-> 0, rogue |-> FALSE,
             pendingAccept |-> FALSE, accepted |-> FALSE, ins |-> {}, outs |-> {}]

Perms(S) == {p \in [1..Cardinality(S) -> S] : \A i, j \in 1..Cardinality(S) : i # j => p[i] # p[j]}

\* ids.Set.List(): the elements of a set in the iteration order ord of that
\* call.  The order is that of a Go map: any order, and every call has its
\* own (S.ord, S.uord, S.sord[u], S.rord[t], S.nord[t] below).
List(ord, set) == SelectSeq(ord, LAMBDA x : x \in set)

\* The order given to the loops whose steps commute (each step touches another
\* neighbour or another registry entry): every order leaves the same state.
Ascending == [i \in 1..NumTx |-> i]

Panic(S, where) == [S EXCEPT !.panicked = where]

Decided(st) == st # Processing

\* DecisionDispatcher.Issue / Accept / Reject for transaction t.
Emit(S, t, e) ==
    [S EXCEPT !.events[t] = Append(@, e), !.opEvents = Append(@, <<e, t>>)]

\* wrappers.Errs.Add: keep the first error.
errsAdd(S, e) == [S EXCEPT !.errs = IF @ = 0 THEN e ELSE @]

\* wrappers.Errs.Errored
Errored(S) == S.errs # 0

\* A callback of transaction t returned an error.
Fail(S, t) == [S EXCEPT !.failed = IF @ = 0 THEN t ELSE @]

\* ------------------------------------------------------------- the graph

\* removeConflict without the "mark the neighbor as preferred" step.
RECURSIVE removeConflictNoPrefer(_, _, _)
removeConflictNoPrefer(S, id, ids) ==
    IF ids = <<>> THEN S
    ELSE LET n == Head(ids)
             S1 == IF n \in S.txs
                   THEN [S EXCEPT !.fn[n].ins = @ \ {id}, !.fn[n].outs = @ \ {id}]
                   ELSE S
         IN removeConflictNoPrefer(S1, id, Tail(ids))

\* removeConflict that clears the rogue flag of a neighbour left without edges.
RECURSIVE removeConflictClearRogue(_, _, _)
removeConflictClearRogue(S, id, ids) ==
    IF ids = <<>> THEN S
    ELSE LET n == Head(ids)
             ins1 == S.fn[n].ins \ {id}
             outs1 == S.fn[n].outs \ {id}
             S1 == IF n \in S.txs
                   THEN [S EXCEPT !.fn[n].ins = ins1,
                                  !.fn[n].outs = outs1,
                                  !.fn[n].rogue = @ /\ (ins1 \cup outs1 # {}),
                                  !.preferences = IF outs1 = {} THEN @ \cup {n} ELSE @]
                   ELSE S
         IN removeConflictClearRogue(S1, id, Tail(ids))

\* Directed.removeConflict: detach id from each neighbour that still has a
\* node; a neighbour left without out-edges becomes preferred.
RECURSIVE removeConflict(_, _, _)
removeConflict(S, id, ids) ==
    IF ids = <<>> THEN S
    ELSE LET n == Head(ids)
             outs1 == S.fn[n].outs \ {id}
             S1 == IF n \in S.txs
                   THEN [S EXCEPT !.fn[n].ins = @ \ {id},
                                  !.fn[n].outs = outs1,
                                  !.preferences = IF outs1 = {} THEN @ \cup {n} ELSE @]
                   ELSE S
         IN removeConflict(S1, id, Tail(ids))

RECURSIVE reject(_, _)

\* directedAccepter.Abandon
accepterAbandon(S, a, id) == [S EXCEPT !.aRejected[a] = TRUE]

RECURSIVE acceptersAbandon(_, _, _)
acceptersAbandon(S, blocking, id) ==
    IF blocking = <<>> \/ S.panicked # "" THEN S
    ELSE acceptersAbandon(accepterAbandon(S, Head(blocking), id), Tail(blocking), id)

\* Blocker.Abandon on dg.pendingAccept: drop the entry, then notify each
\* blockable that waited on id.
pendingAcceptAbandon(S, id) ==
    acceptersAbandon([S EXCEPT !.pendingAccept[id] = <<>>], S.pendingAccept[id], id)

\* errs.Add of the value reject returned.
addRerr(S) == IF S.panicked = "" /\ S.rerr # 0 THEN errsAdd(S, S.rerr) ELSE S

\* directedRejector.Fulfill: cascade the rejection, at most once per rejector.
rejectorFulfill(S, r, id) ==
    IF S.rRejected[r] \/ Errored(S) THEN S
    ELSE addRerr(reject([S EXCEPT !.rRejected[r] = TRUE], <<r>>))

RECURSIVE rejectorsFulfill(_, _, _)
rejectorsFulfill(S, blocking, id) ==
    IF blocking = <<>> \/ S.panicked # "" THEN S
    ELSE rejectorsFulfill(rejectorFulfill(S, Head(blocking), id), Tail(blocking), id)

\* Blocker.Fulfill on dg.pendingReject.
pendingRejectFulfill(S, id) ==
    rejectorsFulfill([S EXCEPT !.pendingReject[id] = <<>>], S.pendingReject[id], id)

\* Blocker.Abandon on dg.pendingReject; directedRejector.Abandon does nothing.
pendingRejectAbandon(S, id) == [S EXCEPT !.pendingReject[id] = <<>>]

\* The end of reject's loop body for conflict c, once its node and edges are
\* gone: Reject() and its event, then the two registries, then the other ids.
\* When Reject() fails, reject returns the error at once.
rejectEnd(S, c, others) ==
    IF c \in S.faulty THEN [Fail(S, c) EXCEPT !.rerr = c]
    ELSE reject(
             pendingRejectFulfill(
                 pendingAcceptAbandon(
                     Emit([S EXCEPT !.status[c] = Rejected], c, "Reject"), c), c),
             others)

\* Directed.reject; its return value is left in rerr (0 = nil).  conf is nil
\* when the id has no node: the delete and the preferences.Remove run, then
\* conf.ins dereferences nil and panics.
reject(S, ids) ==
    IF S.panicked # "" THEN S
    ELSE IF ids = <<>> THEN [S EXCEPT !.rerr = 0]
    ELSE LET c == Head(ids) IN
         IF c \notin S.txs
         THEN Panic([S EXCEPT !.preferences = @ \ {c}], "reject")
         ELSE rejectEnd(
                  removeConflict(
                      removeConflict([S EXCEPT !.txs = @ \ {c}, !.preferences = @ \ {c}],
                                     c, List(Ascending, S.fn[c].ins)),
                      c, List(Ascending, S.fn[c].outs)),
                  c, Tail(ids))

\* ----------------------------------------------------------- the accepter

RECURSIVE accepterUpdate(_, _)

\* directedAccepter.Fulfill
accepterFulfill(S, a, id) == accepterUpdate([S EXCEPT !.aDeps[a] = @ \ {id}], a)

RECURSIVE acceptersFulfill(_, _, _)
acceptersFulfill(S, blocking, id) ==
    IF blocking = <<>> \/ S.panicked # "" THEN S
    ELSE acceptersFulfill(accepterFulfill(S, Head(blocking), id), Tail(blocking), id)

\* Blocker.Fulfill on dg.pendingAccept.
pendingAcceptFulfill(S, id) ==
    acceptersFulfill([S EXCEPT !.pendingAccept[id] = <<>>], S.pendingAccept[id], id)

\* The first acceptance steps: the node leaves dg.txs, the entries of its
\* inputs leave dg.utxos, and it leaves virtuous and preferences.
dropNode(S, a) ==
    [S EXCEPT !.txs = @ \ {a},
              !.utxos = [u \in Utxo |-> IF u \in S.inputs[a] THEN {} ELSE @[u]],
              !.virtuous = @ \ {a},
              !.preferences = @ \ {a},
              !.staleUpdate = @ \/ a \notin S.txs]

\* The acceptance steps without reject(a.fn.ins...).
rejectInsSkipped(S, a) == S

\* reject(a.fn.ins...), in the order S.nord[a] of a.fn.ins.List().
rejectIns(S, a) == reject(S, List(S.nord[a], S.fn[a].ins))

\* The acceptance steps without reject(a.fn.outs...).
rejectOutsSkipped(S, a) == S

\* reject(a.fn.outs...), reached only when the first reject returned nil, in
\* the order S.nord[a] of a.fn.outs.List() (ins and outs are listed once each
\* and share no id, so one order of the neighbours gives each list any order).
rejectOuts(S, a) ==
    IF S.panicked # "" \/ S.rerr # 0 THEN S
    ELSE reject(S, List(S.nord[a], S.fn[a].outs))

\* The last acceptance steps: an error of reject or of Accept() is added to
\* dg.errs and ends the steps; otherwise the transaction is Accepted, the
\* event emitted and the two registries notified.  A panic within
\* pendingAccept.Fulfill leaves pendingReject.Abandon undone.
acceptEnd(S, a) ==
    IF S.panicked # "" THEN S
    ELSE IF S.rerr # 0 THEN addRerr(S)
    ELSE IF a \in S.faulty THEN errsAdd(Fail(S, a), a)
    ELSE LET S1 == pendingAcceptFulfill(
                       Emit([S EXCEPT !.status[a] = Accepted, !.fn[a].accepted = TRUE],
                            a, "Accept"), a)
         IN IF S1.panicked # "" THEN S1 ELSE pendingRejectAbandon(S1, a)

\* The acceptance steps of directedAccepter.Update, once its guard has passed.
accept(S, a) == acceptEnd(rejectOuts(rejectIns(dropNode(S, a), a), a), a)

\* directedAccepter.Update
accepterUpdate(S, a) ==
    IF S.panicked # "" \/ S.aRejected[a] \/ S.aDeps[a] # {} \/ Errored(S) THEN S
    ELSE accept(S, a)

RECURSIVE registerAt(_, _, _, _)
registerAt(S, which, b, ds) ==
    IF ds = <<>> THEN S
    ELSE registerAt([S EXCEPT ![which][Head(ds)] = Append(@, b)], which, b, Tail(ds))

\* Blocker.Register on dg.pendingAccept: index the accepter under each of its
\* dependencies, then call its Update.
pendingAcceptRegister(S, a) ==
    accepterUpdate(registerAt([S EXCEPT !.registered[a] = @ + 1],
                              "pendingAccept", a, List(Ascending, S.aDeps[a])), a)

\* Blocker.Register on dg.pendingReject; directedRejector.Update does nothing.
pendingRejectRegister(S, r, rdeps) ==
    registerAt(S, "pendingReject", r, List(Ascending, rdeps))

\* The dependencies of t that are not decided (Dependencies() filtered by
\* !Status().Decided()).
undecidedDeps(S, t) == {d \in S.deps[t] : ~Decided(S.status[d])}

\* deferAcceptance that leaves the transaction in virtuousVoting.
deferAcceptanceKeepVoting(S, t) ==
    pendingAcceptRegister(
        [S EXCEPT !.fn[t].pendingAccept = TRUE,
                  !.aDeps[t] = undecidedDeps(S, t),
                  !.deferLog[t] = [confidence |-> S.fn[t].confidence,
                                   rogue |-> S.fn[t].rogue,
                                   winner |-> t \in S.threshold]], t)

\* Directed.deferAcceptance
deferAcceptance(S, t) ==
    pendingAcceptRegister(
        [S EXCEPT !.fn[t].pendingAccept = TRUE,
                  !.aDeps[t] = undecidedDeps(S, t),
                  !.virtuousVoting = @ \ {t},
                  !.deferLog[t] = [confidence |-> S.fn[t].confidence,
                                   rogue |-> S.fn[t].rogue,
                                   winner |-> t \in S.threshold]], t)

\* redirectEdge that leaves the inverted edge in the conflict's ins.
redirectEdgeKeepIn(S, t, c) ==
    IF S.panicked # "" THEN S
    ELSE IF c \notin S.txs THEN Panic(S, "redirectEdge")
    ELSE IF S.fn[t].bias > S.fn[c].bias
    THEN LET outs1 == S.fn[t].outs \ {c}
         IN [S EXCEPT !.fn[c].confidence = 0,
                      !.fn[c].outs = @ \cup {t},
                      !.fn[t].ins = @ \cup {c},
                      !.fn[t].outs = outs1,
                      !.preferences = IF outs1 = {} THEN (@ \ {c}) \cup {t} ELSE @ \ {c}]
    ELSE S

\* redirectEdge that never inverts the edge.
redirectEdgeSkipped(S, t, c) ==
    IF S.panicked # "" THEN S
    ELSE IF c \notin S.txs THEN Panic(S, "redirectEdge")
    ELSE S

\* redirectEdge that also inverts the edge when the two biases are equal.
redirectEdgeOnTie(S, t, c) ==
    IF S.panicked # "" THEN S
    ELSE IF c \notin S.txs THEN Panic(S, "redirectEdge")
    ELSE IF S.fn[t].bias >= S.fn[c].bias
    THEN LET outs1 == S.fn[t].outs \ {c}
         IN [S EXCEPT !.fn[c].confidence = 0,
                      !.fn[c].ins = @ \ {t},
                      !.fn[c].outs = @ \cup {t},
                      !.fn[t].ins = @ \cup {c},
                      !.fn[t].outs = outs1,
                      !.preferences = IF outs1 = {} THEN (@ \ {c}) \cup {t} ELSE @ \ {c}]
    ELSE S

\* Directed.redirectEdge: invert the edge t -> c when t has the strictly
\* higher bias.  dg.txs[c] is nil when c has no node: reading its bias panics.
redirectEdge(S, t, c) ==
    IF S.panicked # "" THEN S
    ELSE IF c \notin S.txs THEN Panic(S, "redirectEdge")
    ELSE IF S.fn[t].bias > S.fn[c].bias
    THEN LET outs1 == S.fn[t].outs \ {c}
         IN [S EXCEPT !.fn[c].confidence = 0,
                      !.fn[c].ins = @ \ {t},
                      !.fn[c].outs = @ \cup {t},
                      !.fn[t].ins = @ \cup {c},
                      !.fn[t].outs = outs1,
                      !.preferences = IF outs1 = {} THEN (@ \ {c}) \cup {t} ELSE @ \ {c}]
    ELSE S

RECURSIVE redirectEdgesOver(_, _, _)
redirectEdgesOver(S, t, cs) ==
    IF cs = <<>> THEN S
    ELSE redirectEdgesOver(redirectEdge(S, t, Head(cs)), t, Tail(cs))

\* Directed.redirectEdges, in the order S.rord[t] of fn.outs.List().
redirectEdges(S, t) == redirectEdgesOver(S, t, List(S.rord[t], S.fn[t].outs))

\* ------------------------------------------------------------------- Add

\* Directed.IsVirtuous: the negation of the rogue flag for a node of the graph;
\* otherwise whether no input of the transaction has an entry in dg.utxos.
IsVirtuous(S, t) ==
    IF t \in S.txs THEN ~S.fn[t].rogue
    ELSE \A u \in S.inputs[t] : S.utxos[u] = {}

\* Issued without the test of the transaction's status.
IssuedNodeOnly(S, t) == t \in S.txs

\* Directed.Issued
Issued(S, t) == Decided(S.status[t]) \/ t \in S.txs

\* The inner loop of Add without "conflict.rogue = true".
RECURSIVE markConflictsNoRogue(_, _, _)
markConflictsNoRogue(S, t, cs) ==
    IF cs = <<>> \/ S.panicked # "" THEN S
    ELSE LET c == Head(cs)
             S1 == [S EXCEPT !.virtuous = @ \ {c}, !.virtuousVoting = @ \ {c}]
         IN IF c \notin S.txs THEN Panic(S1, "Add")
            ELSE markConflictsNoRogue([S1 EXCEPT !.fn[c].ins = @ \cup {t}], t, Tail(cs))

\* The inner loop of Add over the spenders of one input: each becomes rogue
\* and gets an in-edge from t.  A spender without a node is a nil *directedTx:
\* the two Removes run, then conflict.rogue = true panics.
RECURSIVE markConflicts(_, _, _)
markConflicts(S, t, cs) ==
    IF cs = <<>> \/ S.panicked # "" THEN S
    ELSE LET c == Head(cs)
             S1 == [S EXCEPT !.virtuous = @ \ {c}, !.virtuousVoting = @ \ {c}]
         IN IF c \notin S.txs THEN Panic(S1, "Add")
            ELSE markConflicts([S1 EXCEPT !.fn[c].rogue = TRUE,
                                          !.fn[c].ins = @ \cup {t}], t, Tail(cs))

\* The loop of Add without "fn.outs.Union(spends)".
RECURSIVE addInputsNoOuts(_, _, _)
addInputsNoOuts(S, t, us) ==
    IF us = <<>> \/ S.panicked # "" THEN S
    ELSE LET u == Head(us)
             spends == S.utxos[u]
             S1 == markConflicts(S, t, List(S.sord[u], spends))
         IN IF S1.panicked # "" THEN S1
            ELSE addInputsNoOuts([S1 EXCEPT !.utxos[u] = spends \cup {t}], t, Tail(us))

\* The loop of Add over the inputs of t.
RECURSIVE addInputs(_, _, _)
addInputs(S, t, us) ==
    IF us = <<>> \/ S.panicked # "" THEN S
    ELSE LET u == Head(us)
             spends == S.utxos[u]
             S1 == markConflicts([S EXCEPT !.fn[t].outs = @ \cup spends], t,
                                 List(S.sord[u], spends))
         IN IF S1.panicked # "" THEN S1
            ELSE addInputs([S1 EXCEPT !.utxos[u] = spends \cup {t}], t, Tail(us))

\* Add's insertion of the node of t once its edges are known: t is rogue iff
\* it has out-edges; a non-rogue t is virtuous and preferred.
insertNode(S, t) ==
    LET rogue == S.fn[t].outs # {}
    IN [S EXCEPT !.fn[t].rogue = rogue,
                 !.txs = @ \cup {t},
                 !.virtuous = IF rogue THEN @ ELSE @ \cup {t},
                 !.virtuousVoting = IF rogue THEN @ ELSE @ \cup {t},
                 !.preferences = IF rogue THEN @ ELSE @ \cup {t}]

\* return dg.errs.Err
returnErrs(S) == [S EXCEPT !.ret = S.errs]

\* The end of Add: the rejector of t waits on its undecided dependencies.
registerRejector(S, t) ==
    returnErrs(pendingRejectRegister(S, t, undecidedDeps(S, t)))

\* Add for a transaction with inputs, after the loop over them.
addNode(S, t) ==
    IF S.panicked # "" THEN S ELSE registerRejector(insertNode(S, t), t)

\* Add without the vacuous acceptance of a transaction without inputs.
AddNoVacuous(S, t) ==
    IF Issued(S, t) THEN [S EXCEPT !.ret = 0]
    ELSE addNode(addInputs(Emit([S EXCEPT !.fn[t] = ZeroNode], t, "Issue"),
                           t, List(S.uord, S.inputs[t])), t)

\* Directed.Add; its return value is left in ret.  Before Initialize dg.ctx
\* is nil and the read of dg.ctx.DecisionDispatcher panics, for every
\* transaction that is not issued.  A transaction without inputs is accepted
\* at once; when its Accept() fails the error is returned without being added
\* to dg.errs.
Add(S, t) ==
    IF Issued(S, t) THEN [S EXCEPT !.ret = 0]
    ELSE IF ~initialized THEN Panic(S, "Add")
    ELSE IF S.inputs[t] = {}
    THEN IF t \in S.faulty
         THEN [Fail(Emit(S, t, "Issue"), t) EXCEPT !.ret = t]
         ELSE [Emit(Emit([S EXCEPT !.status[t] = Accepted], t, "Issue"), t, "Accept")
                  EXCEPT !.ret = 0]
    ELSE addNode(addInputs(Emit([S EXCEPT !.fn[t] = ZeroNode], t, "Issue"),
                           t, List(S.uord, S.inputs[t])), t)

\* ------------------------------------------------------------ RecordPoll

\* ids.Bag.Threshold() after SetThreshold(Alpha): the ids with at least Alpha
\* votes.
Threshold(votes) == {t \in Tx : votes[t] >= Alpha}

\* countVote without the increment of bias.
countVoteNoBias(S, t) ==
    [S EXCEPT !.fn[t].lastVote = S.currentVote,
              !.fn[t].confidence =
                  (IF S.fn[t].lastVote + 1 # S.currentVote THEN 0 ELSE @) + 1]

\* The vote for node t is counted: confidence restarts when the previous
\* poll was not won, then lastVote, bias and confidence advance.
countVote(S, t) ==
    [S EXCEPT !.fn[t].lastVote = S.currentVote,
              !.fn[t].bias = @ + 1,
              !.fn[t].confidence =
                  (IF S.fn[t].lastVote + 1 # S.currentVote THEN 0 ELSE @) + 1]

\* The acceptance test asking BetaVirtuous of every node.
reachedBetaVirtuous(S, t) ==
    ~S.fn[t].pendingAccept /\ S.fn[t].confidence >= BetaVirtuous

\* The acceptance test without the test of pendingAccept.
reachedBetaAgain(S, t) ==
    \/ ~S.fn[t].rogue /\ S.fn[t].confidence >= BetaVirtuous
    \/ S.fn[t].confidence >= BetaRogue

\* The acceptance test of RecordPoll.
reachedBeta(S, t) ==
    /\ ~S.fn[t].pendingAccept
    /\ \/ ~S.fn[t].rogue /\ S.fn[t].confidence >= BetaVirtuous
       \/ S.fn[t].confidence >= BetaRogue

\* The end of the loop body: after a deferAcceptance that left an error in
\* dg.errs RecordPoll returns at once (halt); otherwise the out-edges of a
\* node that was not accepted are redirected.
redirectOrReturn(S, t, deferred) ==
    IF S.panicked # "" THEN S
    ELSE IF deferred /\ Errored(S) THEN [S EXCEPT !.halt = TRUE]
    ELSE IF ~S.fn[t].accepted THEN redirectEdges(S, t) ELSE S

\* The loop body after the vote was counted.
decide(S, t) ==
    IF reachedBeta(S, t)
    THEN redirectOrReturn(deferAcceptance(S, t), t, TRUE)
    ELSE redirectOrReturn(S, t, FALSE)

\* The loop body without the test that the id has a node: dg.txs[id] is nil.
pollOneNoSkip(S, t) ==
    IF t \notin S.txs THEN Panic(S, "RecordPoll") ELSE decide(countVote(S, t), t)

\* The loop body without the reset of confidence after a missed poll.
pollOneNoReset(S, t) ==
    IF t \notin S.txs THEN S
    ELSE decide([S EXCEPT !.fn[t].lastVote = S.currentVote,
                          !.fn[t].bias = @ + 1,
                          !.fn[t].confidence = @ + 1], t)

\* The body of RecordPoll's loop for one thresholded id.  An id without a node
\* is skipped.
pollOne(S, t) ==
    IF t \notin S.txs THEN S ELSE decide(countVote(S, t), t)

RECURSIVE pollOver(_, _)
pollOver(S, ws) ==
    IF ws = <<>> \/ S.panicked # "" \/ S.halt THEN S
    ELSE pollOver(pollOne(S, Head(ws)), Tail(ws))

\* return dg.errs.Err, at the end of the loop or from within it.
pollReturn(S) ==
    IF S.panicked # "" THEN S ELSE [S EXCEPT !.ret = S.errs, !.halt = FALSE]

\* RecordPoll that processes every id of the bag, thresholded or not.
RecordPollAnyVote(S, votes) ==
    pollReturn(pollOver([S EXCEPT !.currentVote = @ + 1,
                                  !.threshold = Threshold(votes) \cap S.txs],
                        List(S.ord, {t \in Tx : votes[t] > 0})))

\* RecordPoll without the increment of currentVote.
RecordPollNoTick(S, votes) ==
    pollReturn(pollOver([S EXCEPT !.threshold = Threshold(votes) \cap S.txs],
                        List(S.ord, Threshold(votes))))

\* Directed.RecordPoll; its return value (dg.errs.Err) is left in ret.
RecordPoll(S, votes) ==
    pollReturn(pollOver([S EXCEPT !.currentVote = @ + 1,
                                  !.threshold = Threshold(votes) \cap S.txs],
                        List(S.ord, Threshold(votes))))

\* ------------------------------------------------------- the state machine

\* The engine state as one record, with two of the iteration orders of this
\* operation: ord for the ids of the bag (or of the vertex), uord for the
\* inputs of the transaction added.
St(ord, uord) ==
    [inputs |-> inputs, deps |-> deps, status |-> status, txs |-> txs, fn |-> fn,
     utxos |-> utxos, preferences |-> preferences, virtuous |-> virtuous,
     virtuousVoting |-> virtuousVoting, currentVote |-> currentVote,
     pendingAccept |-> pendingAccept, pendingReject |-> pendingReject,
     aDeps |-> aDeps, aRejected |-> aRejected, rRejected |-> rRejected,
     panicked |-> panicked, staleUpdate |-> staleUpdate, events |-> events,
     faulty |-> faulty, errs |-> errs, ret |-> ret, failed |-> failed,
     registered |-> registered, deferLog |-> deferLog, opEvents |-> <<>>,
     vtxTxs |-> vtxTxs, vtxParents |-> vtxParents, vtxStatus |-> vtxStatus,
     vcreated |-> vcreated, preferencesV |-> preferencesV,
     threshold |-> {}, rerr |-> 0, halt |-> FALSE, ord |-> ord, uord |-> uord,
     sord |-> [u \in Utxo |-> <<>>], rord |-> [t \in Tx |-> <<>>],
     nord |-> [t \in Tx |-> <<>>]]

\* One order for each id of a sequence of sets: every way of listing each set.
RECURSIVE OrdersOf(_)
OrdersOf(sets) ==
    IF sets = <<>> THEN {<<>>}
    ELSE {<<p>> \o f : p \in Perms(Head(sets)), f \in OrdersOf(Tail(sets))}

\* The neighbours of the node object of t: the ids its edge sets can list.
Neighbours(t) == fn[t].ins \cup fn[t].outs

\* The iteration orders a RecordPoll of this bag can meet.  ord: the winners
\* that have a node in any order (the ids that are skipped follow).  nord[t]:
\* the edges of a node t that can be accepted (a winner, or a node that has
\* an accepter), for the accepter.  rord[t]: the out-edges of a winner t, for
\* redirectEdges; the steps of that loop commute, so that its order shows
\* only when a step panics, which ends the operation before any other list
\* of t is read: rord[t] is drawn as nord[t] and every pair of orders of the
\* two lists has its outcome.  The lists that the poll cannot reach have no
\* order.
PollOrders(votes) ==
    LET W == Threshold(votes) \cap txs
        A == W \cup {t \in Tx : fn[t].pendingAccept}
    IN {[ord |-> w \o List(Ascending, Tx \ W), rord |-> n, nord |-> n] :
            w \in Perms(W),
            n \in OrdersOf([t \in Tx |-> IF t \in A THEN Neighbours(t) ELSE {}])}

\* The engine state with the iteration orders o of one RecordPoll.
StPoll(o) == [St(o.ord, <<>>) EXCEPT !.rord = o.rord, !.nord = o.nord]

\* The iteration orders an Add of transactions with the inputs I can meet:
\* uord for the inputs, sord[u] for the spenders of input u, which are the
\* stored ones and, when one operation adds several transactions, the new
\* ones among them.  The steps of both loops commute, so that their order shows
\* only when a step panics, which ends the operation: the Adds of one
\* operation are given the same orders.
AddOrders(I, new) ==
    {[uord |-> uo, sord |-> so] :
        uo \in Perms(I),
        so \in OrdersOf([u \in Utxo |-> IF u \in I THEN utxos[u] \cup new ELSE {}])}

\* The engine state with the iteration orders o of one Add.
StAdd(ord, o) == [St(ord, o.uord) EXCEPT !.sord = o.sord]

Commit(S) ==
    /\ status' = S.status
    /\ txs' = S.txs
    /\ fn' = S.fn
    /\ utxos' = S.utxos
    /\ preferences' = S.preferences
    /\ virtuous' = S.virtuous
    /\ virtuousVoting' = S.virtuousVoting
    /\ currentVote' = S.currentVote
    /\ pendingAccept' = S.pendingAccept
    /\ pendingReject' = S.pendingReject
    /\ aDeps' = S.aDeps
    /\ aRejected' = S.aRejected
    /\ rRejected' = S.rRejected
    /\ panicked' = S.panicked
    /\ staleUpdate' = S.staleUpdate
    /\ inputs' = S.inputs
    /\ deps' = S.deps
    /\ events' = S.events
    /\ faulty' = S.faulty
    /\ errs' = S.errs
    /\ ret' = S.ret
    /\ failed' = S.failed
    /\ registered' = IF logged THEN S.registered ELSE registered
    /\ deferLog' = IF logged THEN S.deferLog ELSE deferLog
    /\ opEvents' = IF logged THEN S.opEvents ELSE opEvents
    /\ vtxTxs' = S.vtxTxs
    /\ vtxParents' = S.vtxParents
    /\ vtxStatus' = S.vtxStatus
    /\ vcreated' = S.vcreated
    /\ preferencesV' = S.preferencesV

\* The log entry of a transaction deferAcceptance was never called for.
NotDeferred == [confidence |-> 0, rogue |-> FALSE, winner |-> FALSE]

\* The transactions the engine has been given.
Created == 1..created

\* Two transactions conflict iff they share an input UTXO.
Conflicting(x, y) == x # y /\ inputs[x] \cap inputs[y] # {}

\* Directed.Initialize: empty maps and sets, currentVote 0.  No transaction
\* has been presented yet; every Tx object is Processing.
InitEngine ==
    /\ inputs = [t \in Tx |-> {}]
    /\ deps = [t \in Tx |-> {}]
    /\ created = 0
    /\ status = [t \in Tx |-> Processing]
    /\ txs = {}
    /\ fn = [t \in Tx |-> ZeroNode]
    /\ utxos = [u \in Utxo |-> {}]
    /\ preferences = {}
    /\ virtuous = {}
    /\ virtuousVoting = {}
    /\ currentVote = 0
    /\ pendingAccept = [t \in Tx |-> <<>>]
    /\ pendingReject = [t \in Tx |-> <<>>]
    /\ aDeps = [t \in Tx |-> {}]
    /\ aRejected = [t \in Tx |-> FALSE]
    /\ rRejected = [t \in Tx |-> FALSE]
    /\ panicked = ""
    /\ staleUpdate = FALSE
    /\ together = {}
    /\ winStreak = 0
    /\ winTx = 0
    /\ winConf = {}
    /\ winDepsOK = FALSE
    /\ fullStreak = 0
    /\ addAfterPoll = FALSE
    /\ events = [t \in Tx |-> <<>>]
    /\ faulty = {}
    /\ errs = 0
    /\ ret = 0
    /\ failed = 0
    /\ lastOp = ""
    /\ missed = {}
    /\ regained = {}
    /\ afterFail = 0
    /\ registered = [t \in Tx |-> 0]
    /\ deferLog = [t \in Tx |-> NotDeferred]
    /\ opEvents = <<>>
    /\ streak = [t \in Tx |-> 0]
    /\ wins = [t \in Tx |-> 0]
    /\ vtxTxs = [v \in Vtx |-> {}]
    /\ vtxParents = [v \in Vtx |-> {}]
    /\ vtxStatus = [v \in Vtx |-> Processing]
    /\ vcreated = 0
    /\ preferencesV = {}

\* The parameters the engine is run with: those of the specification's
\* scenarios S1-S3.  The defaults of the node's command line (K 20, Alpha 16,
\* BetaVirtuous 20, BetaRogue 30) are another setting and are not modelled.
Params == [K |-> 2, Alpha |-> 2, BetaVirtuous |-> 1, BetaRogue |-> 2,
           Parents |-> 2, BatchSize |-> 2, ConcurrentRepolls |-> 1]

\* A setting in which a virtuous transaction needs two consecutive polls.
ParamsBeta == [Params EXCEPT !.BetaVirtuous = 2]

\* Initialize has been called with Params.
Initialized == params = Params /\ initialized = TRUE

Init == InitEngine /\ Initialized /\ hist = FALSE /\ obs = "" /\ faults = FALSE /\ logged = FALSE

InitHist == InitEngine /\ Initialized /\ hist = TRUE /\ obs = "" /\ faults = FALSE /\ logged = FALSE

InitObs == InitEngine /\ Initialized /\ hist = FALSE /\ obs = "op" /\ faults = FALSE /\ logged = FALSE

InitGap == InitEngine /\ Initialized /\ hist = FALSE /\ obs = "gap" /\ faults = FALSE /\ logged = FALSE

InitErr == InitEngine /\ Initialized /\ hist = FALSE /\ obs = "" /\ faults = TRUE /\ logged = FALSE

InitLog == InitEngine /\ Initialized /\ hist = FALSE /\ obs = "" /\ faults = FALSE /\ logged = TRUE

\* Initialize has been called with ParamsBeta.
InitBeta ==
    /\ InitEngine /\ params = ParamsBeta /\ initialized = TRUE
    /\ hist = FALSE /\ obs = "" /\ faults = FALSE /\ logged = TRUE

\* d2 is reachable from d1 along dependencies dp (paths of at most NumTx edges).
RECURSIVE ReachIn(_, _, _, _)
ReachIn(dp, d1, d2, n) ==
    n > 0 /\ (d2 \in dp[d1] \/ \E m \in dp[d1] : ReachIn(dp, m, d2, n - 1))

Acyclic(dp) == \A t \in Tx : ~ReachIn(dp, t, t, NumTx)

\* The transactions a caller may present next.  Identifiers are opaque, so
\* transactions are numbered in the order of their first Add and UTXOs in the
\* order of their first use; dependencies may name transactions that are added
\* later or never, but are never cyclic.
NewInputsOf(inp, n) ==
    LET used == UNION {inp[t] : t \in 1..n}
    IN {I \in SUBSET Utxo : \A u \in I \ used : \A v \in Utxo \ used : v < u => v \in I}

NewInputs == NewInputsOf(inputs, created)

NumDeps(dp) == Cardinality(UNION {{<<t, d>> : d \in dp[t]} : t \in Tx})

NewDeps(t) ==
    {D \in SUBSET (Tx \ {t}) :
        LET dp == [deps EXCEPT ![t] = D]
        IN Acyclic(dp) /\ NumDeps(dp) <= (IF faults THEN MaxDepsErr ELSE MaxDeps)}

\* Operations are followed up to MaxAfterFail steps past a failed callback.
Step ==
    /\ failed # 0 => afterFail < MaxAfterFail
    /\ afterFail' = IF failed # 0 THEN afterFail + 1 ELSE afterFail

\* Whether the next transaction's callbacks fail: at most MaxFaulty
\* transactions do, and only when the run admits failing callbacks.
NewFaulty ==
    IF faults /\ Cardinality(faulty) < MaxFaulty THEN BOOLEAN ELSE {FALSE}

\* A caller adds a transaction the engine has not seen.
AddTx ==
    /\ panicked = ""
    /\ Step
    /\ created < NumTx
    /\ \E I \in NewInputs, D \in NewDeps(created + 1), F \in NewFaulty :
       \E o \in AddOrders(I, {}) :
          LET t == created + 1
              S == [StAdd(<<>>, o) EXCEPT !.inputs[t] = I, !.deps[t] = D,
                                         !.faulty = IF F THEN @ \cup {t} ELSE @]
          IN /\ Commit(Add(S, t))
             /\ created' = t
             /\ together' = together \cup {{t, y} : y \in {z \in txs' : t \in txs' /\ z # t}}
             /\ addAfterPoll' = (addAfterPoll \/ (hist /\ currentVote > 0 /\ ~Issued(S, t)))
    /\ fullStreak' = 0
    /\ lastOp' = IF obs = "op" THEN "AddNew" ELSE ""
    /\ UNCHANGED <<hist, winStreak, winTx, winConf, winDepsOK,
                   faults, obs, missed, regained, logged, streak, wins, paramVars>>

\* A caller adds again a transaction that is in the graph or decided (Add
\* returns before it iterates anything).
AddAgain ==
    /\ panicked = ""
    /\ Step
    /\ \E t \in 1..created :
          /\ t \in txs \/ Decided(status[t])
          /\ Commit(Add(St(<<>>, <<>>), t))
    /\ lastOp' = IF obs = "op" THEN "AddAgain" ELSE ""
    /\ UNCHANGED <<created, together, hist, winStreak, winTx, winConf, winDepsOK,
                   fullStreak, addAfterPoll, faults, obs, missed, regained, logged,
                   streak, wins, paramVars>>

\* A caller adds again a transaction whose earlier Add or rejection ended in
\* an error, so that it is neither in the graph nor decided.
AddRetry ==
    /\ panicked = ""
    /\ Step
    /\ \E t \in 1..created :
       \E o \in AddOrders(inputs[t], {}) :
          /\ t \notin txs /\ ~Decided(status[t])
          /\ Len(events[t]) < MaxIssue
          /\ Commit(Add(StAdd(<<>>, o), t))
          /\ together' = together \cup {{t, y} : y \in {z \in txs' : t \in txs' /\ z # t}}
    /\ UNCHANGED <<created, hist, winStreak, winTx, winConf, winDepsOK,
                   fullStreak, addAfterPoll, faults, obs, lastOp, missed, regained, logged,
                   streak, wins, paramVars>>

Min(a, b) == IF a < b THEN a ELSE b

\* The vote counts a polled id may have: below the threshold, or at it.
VoteCounts == (Alpha - 1)..Alpha

\* A caller records the result of one poll, the n-th at most.
PollWithin(n) ==
    /\ panicked = ""
    /\ Step
    /\ currentVote < n
    /\ \E votes \in [Tx -> VoteCounts] :
       \E o \in PollOrders(votes) :
          LET W == Threshold(votes) IN
          /\ Commit(RecordPoll(StPoll(o), votes))
          /\ IF hist /\ Cardinality(W) = 1
             THEN LET x == CHOOSE w \in W : TRUE IN
                  IF winTx = x
                  THEN /\ winStreak' = Min(winStreak + 1, BetaRogue)
                       /\ UNCHANGED <<winTx, winConf, winDepsOK>>
                  ELSE /\ winStreak' = 1
                       /\ winTx' = x
                       /\ winConf' = IF x \in txs
                                     THEN {y \in txs : Conflicting(x, y)}
                                     ELSE {}
                       /\ winDepsOK' = \A d \in deps[x] : status[d] = Accepted
             ELSE /\ winStreak' = 0
                  /\ winTx' = 0
                  /\ winConf' = {}
                  /\ winDepsOK' = FALSE
          /\ fullStreak' = IF hist /\ Created \subseteq W
                           THEN Min(fullStreak + 1, BetaVirtuous)
                           ELSE 0
          /\ lastOp' = IF obs # "op" THEN ""
                       ELSE IF W = {} THEN "PollNone"
                       ELSE IF W \cap txs = {} THEN "PollNoNode"
                       ELSE "Poll"
          /\ missed' = IF obs = "gap" THEN txs' \ W ELSE {}
          /\ regained' = IF obs = "gap" THEN missed \cap W \cap txs' ELSE {}
          /\ streak' = IF logged
                       THEN [t \in Tx |-> IF t \in W \cap txs THEN streak[t] + 1 ELSE 0]
                       ELSE streak
          /\ wins' = IF logged
                     THEN [t \in Tx |-> IF t \in W \cap txs THEN wins[t] + 1 ELSE wins[t]]
                     ELSE wins
    /\ UNCHANGED <<created, together, hist, addAfterPoll, faults, obs, logged,
                   paramVars>>

Poll == PollWithin(MaxVote)

Next == AddTx \/ AddAgain \/ Poll

NextErr == AddTx \/ AddAgain \/ AddRetry \/ Poll

Spec == Init /\ [][Next]_vars

SpecHist == InitHist /\ [][Next]_vars

SpecObs == InitObs /\ [][Next]_vars

SpecGap == InitGap /\ [][Next]_vars

SpecErr == InitErr /\ [][NextErr]_vars

SpecLog == InitLog /\ [][Next]_vars

\* Runs with BetaVirtuous = 2: fewer transactions, followed for more polls.
AddTxFew == created < NumTxFew /\ AddTx

PollLong == PollWithin(MaxVoteLong)

NextBeta == AddTxFew \/ PollLong

SpecBeta == InitBeta /\ [][NextBeta]_vars

\* --------------------------------------------------------- the vertex DAG
\* The Avalanche DAG above Snowstorm: vertices carry transactions and name
\* parent vertices.  The vertex state is part of the record S.

\* The decision of a processing vertex: rejected when one of its transactions
\* or parents is Rejected, accepted when all of them are Accepted.
decideVertex(S, v) ==
    IF S.vtxStatus[v] # Processing THEN S
    ELSE IF \/ \E t \in S.vtxTxs[v] : S.status[t] = Rejected
            \/ \E q \in S.vtxParents[v] : S.vtxStatus[q] = Rejected
    THEN [S EXCEPT !.vtxStatus[v] = Rejected]
    ELSE IF /\ \A t \in S.vtxTxs[v] : S.status[t] = Accepted
            /\ \A q \in S.vtxParents[v] : S.vtxStatus[q] = Accepted
    THEN [S EXCEPT !.vtxStatus[v] = Accepted]
    ELSE S

\* The vertices v..vcreated are decided, parents before children.
RECURSIVE decideVertices(_, _)
decideVertices(S, v) ==
    IF v > S.vcreated THEN S ELSE decideVertices(decideVertex(S, v), v + 1)

\* A processing vertex is preferred when each of its transactions is preferred
\* by Snowstorm and each of its parents is preferred or Accepted.
preferVertex(S, v) ==
    IF /\ S.vtxStatus[v] = Processing
       /\ S.vtxTxs[v] \subseteq S.preferences
       /\ \A q \in S.vtxParents[v] : q \in S.preferencesV \/ S.vtxStatus[q] = Accepted
    THEN [S EXCEPT !.preferencesV = @ \cup {v}]
    ELSE S

RECURSIVE preferVertices(_, _)
preferVertices(S, v) ==
    IF v > S.vcreated THEN S ELSE preferVertices(preferVertex(S, v), v + 1)

\* The vertex statuses and the preferences are brought up to date.
preferAll(S) == preferVertices([S EXCEPT !.preferencesV = {}], 1)

updateDag(S) == IF S.panicked # "" THEN S ELSE preferAll(decideVertices(S, 1))

RECURSIVE addAll(_, _)
addAll(S, ts) ==
    IF ts = <<>> \/ S.panicked # "" THEN S ELSE addAll(Add(S, Head(ts)), Tail(ts))

\* The DAG's Add: each transaction of the vertex is given to Snowstorm's Add,
\* the vertex is recorded, and the statuses and preferences are updated.
vertexAdd(S, v, T, P) ==
    updateDag([addAll(S, List(S.ord, T))
                  EXCEPT !.vtxTxs[v] = T, !.vtxParents[v] = P, !.vcreated = v])

\* The processing vertices a vote for v counts for: v and its ancestors up
\* to the decided ones.  A vote for a vertex that is not in the index is
\* dropped.
RECURSIVE Reach(_, _)
Reach(S, v) ==
    IF v > S.vcreated \/ S.vtxStatus[v] # Processing THEN {}
    ELSE {v} \cup UNION {Reach(S, q) : q \in S.vtxParents[v]}

\* The responders whose votes count for vertex v.
Voters(S, vote, v) == {r \in 1..K : \E u \in vote[r] : v \in Reach(S, u)}

\* The responders whose votes count for transaction t: the union over the
\* voted vertices that carry t.
TxVoters(S, vote, t) ==
    UNION {Voters(S, vote, v) : v \in {u \in 1..S.vcreated : t \in S.vtxTxs[u]}}

\* The transaction bag given to Snowstorm.
TxBag(S, vote) == [t \in Tx |-> Cardinality(TxVoters(S, vote, t))]

\* The DAG's RecordPoll.
vertexRecordPoll(S, vote) == updateDag(RecordPoll(S, TxBag(S, vote)))

\* Orphans(): the virtuous transactions that no preferred vertex carries.
Orphans(S) == S.virtuous \ UNION {S.vtxTxs[v] : v \in S.preferencesV}

\* Quiesce(): every vertex that is not decided carries a rogue transaction.
Quiesce(S) ==
    \A v \in 1..S.vcreated :
        S.vtxStatus[v] = Processing => \E t \in S.vtxTxs[v] \cap S.txs : S.fn[t].rogue

\* The inputs of up to k new transactions, numbered from n + 1.
RECURSIVE NewTxs(_, _, _)
NewTxs(inp, n, k) ==
    IF k = 0 \/ n = NumTx THEN {<<>>}
    ELSE {<<>>} \cup
         UNION {{<<I>> \o r : r \in NewTxs([inp EXCEPT ![n + 1] = I], n + 1, k - 1)} :
                    I \in NewInputsOf(inp, n)}

\* A caller adds a vertex: between 1 and BatchSize transactions, known ones
\* or new ones (without dependencies), and at most Parents parents among the
\* vertices added before.
AddVertex ==
    /\ panicked = ""
    /\ vcreated < NumVtx
    /\ \E P \in SUBSET (1..vcreated), E \in SUBSET Created,
          N \in NewTxs(inputs, created, BatchSize) :
       \E ord \in Perms((created + 1)..(created + Len(N))),
          o \in AddOrders(UNION {N[i] : i \in 1..Len(N)},
                          (created + 1)..(created + Len(N))) :
          LET new == (created + 1)..(created + Len(N))
              T == E \cup new
              S == [StAdd(ord \o List(Ascending, Tx \ new), o) EXCEPT
                       !.inputs = [t \in Tx |-> IF t \in new THEN N[t - created] ELSE @[t]]]
          IN /\ Cardinality(P) <= Parents
             /\ Cardinality(T) \in 1..BatchSize
             /\ Commit(vertexAdd(S, vcreated + 1, T, P))
             /\ created' = created + Len(N)
             /\ together' = together \cup
                    ({{x, y} : x \in new \cap txs', y \in txs'} \ {{x} : x \in Tx})
    /\ UNCHANGED <<hist, winStreak, winTx, winConf, winDepsOK, fullStreak,
                   addAfterPoll, faults, obs, lastOp, missed, regained, afterFail,
                   logged, streak, wins, paramVars>>

\* A caller records the result of one poll of K responders, each naming a set
\* of vertices.
PollVertices ==
    /\ panicked = ""
    /\ currentVote < MaxVote
    /\ \E vote \in [1..K -> SUBSET (1..vcreated)] :
       \E o \in PollOrders(TxBag(St(<<>>, <<>>), vote)) :
          Commit(vertexRecordPoll(StPoll(o), vote))
    /\ UNCHANGED <<created, together, hist, winStreak, winTx, winConf, winDepsOK,
                   fullStreak, addAfterPoll, faults, obs, lastOp, missed, regained,
                   afterFail, logged, streak, wins, paramVars>>

NextDag == AddVertex \/ PollVertices

SpecDag == Init /\ [][NextDag]_vars

\* ------------------------------------------------------------- Initialize

\* The parameter sets a caller may give to Initialize.
ParamSpace ==
    [K : 0..MaxParam, Alpha : 0..MaxParam, BetaVirtuous : 0..MaxParam,
     BetaRogue : 0..MaxParam, Parents : 0..MaxParam, BatchSize : 0..MaxParam,
     ConcurrentRepolls : 0..MaxParam]

\* The zero value of snowball.Parameters.
ZeroParams == [K |-> 0, Alpha |-> 0, BetaVirtuous |-> 0, BetaRogue |-> 0,
               Parents |-> 0, BatchSize |-> 0, ConcurrentRepolls |-> 0]

\* A Directed value on which Initialize has not been called.
InitParams ==
    /\ InitEngine
    /\ hist = FALSE /\ obs = "" /\ faults = FALSE /\ logged = FALSE
    /\ params = ZeroParams
    /\ initialized = FALSE

\* Directed.Initialize(ctx, params): the parameters are stored as given and
\* the two maps are replaced by empty ones.  The function has no result and
\* tests nothing, so it can be called again, on an engine in use as well; the
\* fields it does not assign keep their values.
Initialize ==
    /\ panicked = ""
    /\ \E p \in ParamSpace : params' = p
    /\ txs' = {}
    /\ utxos' = [u \in Utxo |-> {}]
    /\ initialized' = TRUE
    /\ UNCHANGED <<inputs, deps, status, fn, preferences, virtuous,
                   virtuousVoting, currentVote, pendingAccept, pendingReject, aDeps,
                   aRejected, rRejected, panicked, staleUpdate, created, together,
                   hist, winStreak, winTx, winConf, winDepsOK, fullStreak,
                   addAfterPoll, events, faulty, errs, ret, failed, faults, obs,
                   lastOp, missed, regained, afterFail, logged, registered,
                   deferLog, opEvents, streak, wins, dagVars>>

\* Add on a Directed value on which Initialize has not been called.
AddRaw == initialized = FALSE /\ AddTx

NextParams == Initialize \/ AddRaw

SpecParams == InitParams /\ [][NextParams]_vars

\* Initialize called again on an engine in use, with one of the two valid
\* parameter sets.
Reinitialize == params' \in {Params, ParamsBeta} /\ Initialize

NextReinit == AddTxFew \/ PollLong \/ Reinitialize

SpecReinit == Init /\ [][NextReinit]_vars

\* ----------------------------------------------------------------- claims

\* C1 (as stated): two transactions that share an input UTXO are never both
\* Accepted, whatever the order of Adds and polls.
C1_NoDoubleSpend ==
    \A x, y \in Created :
        Conflicting(x, y) => ~(status[x] = Accepted /\ status[y] = Accepted)

\* The double acceptance needs the second transaction to be added after the
\* first was decided: two transactions that share an input UTXO and had a node
\* in the conflict graph at the same time are never both Accepted.
C1_NoDoubleSpendInGraph ==
    \A x, y \in Created :
        (Conflicting(x, y) /\ {x, y} \in together)
            => ~(status[x] = Accepted /\ status[y] = Accepted)

\* C2: an Accepted transaction has only Accepted dependencies.
C2_AcceptedDepsAccepted ==
    \A t \in Created :
        status[t] = Accepted => \A d \in deps[t] : status[d] = Accepted

\* C3: a transaction given to Add of which a dependency is Rejected is never
\* Accepted.
C3_RejectedDepNeverAccepted ==
    \A t \in Created :
        (\E d \in deps[t] : status[d] = Rejected) => status[t] # Accepted

\* C4: reject(id) and the accepter's acceptance steps run only for a
\* transaction that still has a node in the tx map.
C4_DecidedOnlyWithNode == panicked # "reject" /\ ~staleUpdate

\* C5: after every completed operation, y is in x.outs iff x is in y.ins, for
\* all nodes x, y of the graph.
C5_EdgeSymmetry ==
    panicked = "" =>
        \A x, y \in txs : (y \in fn[x].outs) <=> (x \in fn[y].ins)

\* An edge of the graph has been inverted by a poll: the transaction added
\* first points at the one added later.
C5_Witness ==
    /\ panicked = ""
    /\ \E x, y \in txs : x < y /\ y \in fn[x].outs /\ x \in fn[y].ins /\ fn[y].bias > 0

\* C6: after every completed operation, preferences is exactly the set of
\* graph nodes without out-edges.
C6_PreferencesInvariant ==
    panicked = "" => preferences = {t \in txs : fn[t].outs = {}}

\* A node lost its preference to a conflict that overtook it, and a third
\* transaction has been decided.
C6_Witness ==
    /\ panicked = ""
    /\ \E x, y \in txs : x < y /\ y \in fn[x].outs /\ y \in preferences /\ x \notin preferences
    /\ \E z \in Created : Decided(status[z])

\* C7: after every completed operation, virtuous is exactly the set of graph
\* nodes that are not rogue, and is included in preferences.
C7_VirtuousInvariant ==
    panicked = "" =>
        /\ virtuous = {t \in txs : ~fn[t].rogue}
        /\ virtuous \subseteq preferences

\* C8 (as stated): a graph node is rogue iff it has an edge.
C8_RogueIffEdges ==
    panicked = "" =>
        \A t \in txs : fn[t].rogue <=> (fn[t].ins \cup fn[t].outs # {})

\* C8 (amended): a graph node that has an edge is rogue, and a rogue node
\* shares an input with another transaction that had a node in the graph
\* together with it.
C8_EdgesImplyRogue ==
    panicked = "" =>
        \A t \in txs :
            /\ (fn[t].ins \cup fn[t].outs # {}) => fn[t].rogue
            /\ fn[t].rogue => \E y \in Created : Conflicting(t, y) /\ {t, y} \in together

\* A rogue node whose conflicts have all left the graph, beside a node that
\* still has an edge.
C8_Witness ==
    /\ panicked = ""
    /\ \E t \in txs : fn[t].rogue /\ fn[t].ins \cup fn[t].outs = {}

\* C9: when the transactions given to the engine are pairwise non-conflicting
\* and depend only on each other, whatever the order of their Adds and the
\* polls recorded between them, and each of the last BetaVirtuous polls, all
\* recorded after the last Add, gave every one of them Alpha votes, then all
\* of them are Accepted.
C9_VirtuousAccept ==
    ( /\ fullStreak >= BetaVirtuous
      /\ \A x, y \in Created : ~Conflicting(x, y)
      /\ \A t \in Created : deps[t] \subseteq Created )
        => \A t \in Created : status[t] = Accepted

\* The same when every transaction was added before the first poll.
C9_VirtuousAcceptAddedFirst ==
    ( /\ ~addAfterPoll
      /\ fullStreak >= BetaVirtuous
      /\ \A x, y \in Created : ~Conflicting(x, y)
      /\ \A t \in Created : deps[t] \subseteq Created )
        => \A t \in Created : status[t] = Accepted

\* The same when every transaction has an input, so that none is accepted by
\* Add itself.
C9_VirtuousAcceptWithInputs ==
    ( /\ fullStreak >= BetaVirtuous
      /\ \A x, y \in Created : ~Conflicting(x, y)
      /\ \A t \in Created : deps[t] \subseteq Created /\ inputs[t] # {} )
        => \A t \in Created : status[t] = Accepted

\* C10: if x had conflicts in the graph (and only Accepted dependencies) and
\* the last BetaRogue polls each had x as their only winner, then x is
\* Accepted and those conflicts are Rejected.
C10_BiasedLiveness ==
    (winStreak >= BetaRogue /\ winConf # {} /\ winDepsOK)
        => /\ status[winTx] = Accepted
           /\ \A y \in winConf : status[y] = Rejected

\* C11: after every completed operation, a non-rogue node of the graph whose
\* confidence is at least BetaVirtuous and whose dependencies are all decided
\* has been Accepted (so no such node is left Processing in the graph).
C11_AcceptedWhenReady ==
    panicked = "" =>
        \A t \in txs :
            ( /\ ~fn[t].rogue
              /\ fn[t].confidence >= BetaVirtuous
              /\ \A d \in deps[t] : Decided(status[d]) )
                => status[t] = Accepted

\* C12 (as stated): a node that was not a winner of some poll has confidence 0
\* after the next poll of which it is a winner.
C12_ConfidenceZeroAfterGap ==
    panicked = "" => \A t \in regained : fn[t].confidence = 0

\* C12 (amended): a node that was not a winner of some poll has, after the
\* next poll of which it is a winner, confidence 1: its count restarts (reset
\* to 0, then incremented).
C12_ConfidenceRestarts ==
    panicked = "" => \A t \in regained : fn[t].confidence = 1

\* A node won a poll, missed one, and is a winner of the last poll: its
\* confidence counts that poll only.
C12_Witness ==
    /\ panicked = ""
    /\ \E t \in regained :
          fn[t].bias >= 2 /\ fn[t].lastVote = currentVote /\ fn[t].confidence = 1

\* The state of the engine that Add and RecordPoll may change, with the events
\* the dispatcher has received.
engine == <<status, txs, fn, utxos, preferences, virtuous, virtuousVoting,
            currentVote, pendingAccept, pendingReject, aDeps, aRejected,
            rRejected, events, errs>>

\* C13: Add of a transaction that has a node in the graph or is decided
\* returns nil and changes nothing: no node, edge, UTXO entry, set, counter or
\* registered blockable changes and no event is emitted.
C13_AddIdempotent ==
    [][lastOp' = "AddAgain" => (ret' = 0 /\ UNCHANGED engine)]_vars

\* Add has just been called again while one transaction is in the graph and
\* another one is decided.
C13_Witness ==
    /\ lastOp = "AddAgain"
    /\ txs # {}
    /\ \E t \in Created : Decided(status[t])

\* C14: Add of a transaction that was not issued and has no inputs makes it
\* Accepted within the call, emits Issue then Accept for it, inserts no node
\* and leaves the UTXO index, virtuous, virtuousVoting and preferences as
\* they were.
C14_VacuousAccept ==
    [][(lastOp' = "AddNew" /\ created' = created + 1 /\ inputs'[created'] = {})
          => /\ status'[created'] = Accepted
             /\ events'[created'] = <<"Issue", "Accept">>
             /\ ret' = 0
             /\ UNCHANGED <<txs, fn, utxos, virtuous, virtuousVoting, preferences>>]_vars

\* A transaction without inputs has just been added beside a node of the
\* graph, and is Accepted.
C14_Witness ==
    /\ lastOp = "AddNew"
    /\ created > 0 /\ inputs[created] = {}
    /\ status[created] = Accepted
    /\ events[created] = <<"Issue", "Accept">>
    /\ txs # {}

\* The inputs a transaction may be queried with: its own once it has been
\* given to Add, any set of UTXOs before.
QueryInputs(t) == IF t \in Created THEN {inputs[t]} ELSE SUBSET Utxo

\* C15: in every state left by a completed operation, IsVirtuous(tx) is the
\* negation of the rogue flag when tx has a node, and otherwise is true iff no
\* input of tx is consumed by a transaction that has a node in the graph.
C15_IsVirtuous ==
    panicked = "" =>
        \A t \in Tx : \A I \in QueryInputs(t) :
            LET S == [St(<<>>, <<>>) EXCEPT !.inputs[t] = I]
            IN IF t \in txs
               THEN IsVirtuous(S, t) = ~fn[t].rogue
               ELSE IsVirtuous(S, t) =
                        (\A u \in I : ~\E y \in txs : u \in inputs[y])

\* What a poll without effect leaves unchanged: every node's fields, the
\* statuses, the sets, the UTXO index, the registries and the events.
frame == <<status, txs, fn, utxos, preferences, virtuous, virtuousVoting,
           pendingAccept, pendingReject, aDeps, aRejected, rRejected, events, errs>>

\* C16: a RecordPoll whose bag has no id with at least Alpha votes changes no
\* node (bias, confidence, edges, flags), no status, none of virtuous,
\* virtuousVoting, preferences, and not the UTXO index; it returns nil.
C16_BelowThresholdNoChange ==
    [][(lastOp' = "PollNone" /\ currentVote' = currentVote + 1)
          => (ret' = 0 /\ UNCHANGED frame)]_vars

\* A poll without a thresholded id has just been recorded while a node of the
\* graph holds confidence from an earlier poll.
C16_Witness ==
    /\ lastOp = "PollNone"
    /\ \E t \in txs : fn[t].confidence >= 1 /\ fn[t].lastVote + 1 = currentVote

\* The bag votes without the votes for ids that have no node in the graph.
NodeVotes(votes) == [t \in Tx |-> IF t \in txs THEN votes[t] ELSE 0]

\* The bags whose thresholded ids include both ids with a node and ids
\* without one (for the other bags NodeVotes changes no thresholded id).
MixedVotes ==
    {votes \in [Tx -> VoteCounts] :
        Threshold(votes) \cap txs # {} /\ Threshold(votes) \ txs # {}}

\* C17: a RecordPoll whose thresholded ids all lack a node (unknown or decided
\* transactions) returns nil and changes no node, status, set or UTXO entry;
\* and in every state where a poll can be recorded, a poll has the effect of
\* the same poll without the votes for ids that lack a node.
C17_VotesWithoutNodeDropped ==
    /\ [][(lastOp' = "PollNoNode" /\ currentVote' = currentVote + 1)
             => (ret' = 0 /\ UNCHANGED frame)]_vars
    /\ []((panicked = "" /\ currentVote < MaxVote) =>
             \A nv \in {NodeVotes(v) : v \in MixedVotes} :
                 \A o \in PollOrders(nv) :
                     LET R == RecordPoll(StPoll(o), nv)
                     IN \A votes \in MixedVotes :
                            NodeVotes(votes) = nv
                                => RecordPoll(StPoll(o), votes) = R)

\* A poll whose winners were a decided transaction or an unknown id has just
\* been recorded, beside a node of the graph.
C17_Witness ==
    /\ lastOp = "PollNoNode"
    /\ txs # {}
    /\ \E t \in Created : Decided(status[t])

\* C18: the dispatcher receives, for every transaction given to Add, Issue
\* exactly once and first, then at most one of Accept and Reject; and nothing
\* for a transaction never given to Add.
C18_EventsOnce ==
    \A t \in Tx :
        IF t \in Created
        THEN events[t] \in {<<"Issue">>, <<"Issue", "Accept">>, <<"Issue", "Reject">>}
        ELSE events[t] = <<>>

\* C19: once an Accept or Reject callback has failed, the operation in which
\* it failed and every later Add and RecordPoll return that error, and the
\* later operations decide no transaction and change nothing of the graph.
C19_ErrorShortCircuit ==
    /\ [](failed # 0 => ret = failed)
    /\ [][failed # 0 =>
             UNCHANGED <<status, txs, fn, utxos, preferences, virtuous,
                         virtuousVoting, pendingAccept, pendingReject>>]_vars

\* A decided transaction has no node and no remaining node names it in its
\* ins or outs.
DecidedOutOfGraph ==
    \A t \in Created :
        Decided(status[t]) =>
            /\ t \notin txs
            /\ \A n \in txs : t \notin fn[n].ins \cup fn[n].outs

\* C20 (as stated): after every completed operation a decided transaction is
\* out of the graph, and the UTXO index has no entry for an input of an
\* Accepted transaction.
C20_DecidedPurged ==
    panicked = "" =>
        /\ DecidedOutOfGraph
        /\ \A t \in Created :
               status[t] = Accepted => \A u \in inputs[t] : utxos[u] = {}

\* The entries are deleted at the acceptance and come back only with a later
\* Add: after every completed operation a decided transaction is out of the
\* graph; and when the operation that accepts a transaction returns, the UTXO
\* index has no entry for any of its inputs.
C20_DecidedPurgedOnAccept ==
    /\ [](panicked = "" => DecidedOutOfGraph)
    /\ [][\A t \in Tx :
             (status[t] # Accepted /\ status'[t] = Accepted /\ panicked' = "")
                 => \A u \in inputs'[t] : utxos'[u] = {}]_vars

\* C21: pendingAccept of a transaction is never reset once set; a transaction
\* has one registered accepter when pendingAccept is set and none otherwise;
\* and pendingAccept was set by a RecordPoll of which the transaction was a
\* winner, with a confidence after the increment of at least BetaVirtuous if
\* it was not rogue and of at least BetaRogue if it was.
C21_PendingAcceptOnce ==
    /\ [][\A t \in Tx : fn[t].pendingAccept => fn'[t].pendingAccept]_vars
    /\ [](\A t \in Tx :
             /\ registered[t] = IF fn[t].pendingAccept THEN 1 ELSE 0
             /\ fn[t].pendingAccept =>
                    /\ deferLog[t].winner
                    /\ deferLog[t].confidence >=
                           IF deferLog[t].rogue THEN BetaRogue ELSE BetaVirtuous)

\* A rogue node has its acceptance deferred and has waited in the graph for
\* its dependency since an earlier poll, and the acceptance of a node that was
\* not rogue has been deferred too.
C21_Witness ==
    /\ panicked = ""
    /\ \E x \in txs :
          /\ fn[x].pendingAccept /\ deferLog[x].rogue /\ registered[x] = 1
          /\ fn[x].lastVote < currentVote
    /\ \E y \in Created : fn[y].pendingAccept /\ ~deferLog[y].rogue

\* C27: the accepter of a transaction never runs its acceptance steps once the
\* transaction has lost its node, and a Rejected transaction stays Rejected
\* and receives no further event.
C27_RejectedAccepterIdle ==
    /\ [](~staleUpdate)
    /\ [][\A t \in Tx :
             status[t] = Rejected => (status'[t] = Rejected /\ events'[t] = events[t])]_vars

\* C28 (as stated): a transaction accepted by its accepter had no out-edge
\* when it was accepted.
C28_AcceptOnlyWithoutOuts ==
    panicked = "" => \A t \in Created : fn[t].accepted => fn[t].outs = {}

\* C28 (amended): a transaction may be accepted by its accepter while it has
\* out-edges; every transaction it pointed at has then been rejected when the
\* operation returns.
C28_OutsRejectedOnAccept ==
    panicked = "" =>
        \A t \in Created :
            (fn[t].accepted /\ status[t] = Accepted) =>
                \A c \in fn[t].outs : status[c] = Rejected /\ c \notin txs

\* A transaction was accepted while it pointed at a conflict, which is
\* Rejected.
C28_Witness ==
    /\ panicked = ""
    /\ \E t \in Created :
          /\ fn[t].accepted /\ status[t] = Accepted
          /\ \E c \in fn[t].outs : status[c] = Rejected

\* The positions of the event <<e, t>> among the events of the last operation.
At(e, t) == {i \in 1..Len(opEvents) : opEvents[i] = <<e, t>>}

\* C29: when an operation has returned in which the accepter accepted t,
\* every transaction of t.ins and t.outs is out of the graph and Rejected, its
\* Reject event precedes t's Accept event, and the Reject events of t.ins
\* precede those of t.outs.
C29_ConflictsRejectedFirst ==
    panicked = "" =>
        \A t \in Created :
            (fn[t].accepted /\ At("Accept", t) # {}) =>
                /\ \A c \in fn[t].ins \cup fn[t].outs :
                       /\ c \notin txs /\ status[c] = Rejected
                       /\ \E i \in At("Reject", c) : \A j \in At("Accept", t) : i < j
                /\ \A c \in fn[t].ins, d \in fn[t].outs :
                       \A i \in At("Reject", c), j \in At("Reject", d) : i < j

\* The last operation accepted a transaction that had an in-edge and an
\* out-edge, and both neighbours were rejected in it.
C29_Witness ==
    /\ panicked = ""
    /\ \E t \in Created :
          /\ fn[t].accepted /\ At("Accept", t) # {}
          /\ fn[t].ins # {} /\ fn[t].outs # {}
          /\ \A c \in fn[t].ins \cup fn[t].outs : At("Reject", c) # {}

\* C30: in every state left by a completed operation, redirectEdge for an
\* edge w -> y inverts it iff w.bias > y.bias (y moves from w.outs to w.ins, w
\* from y.ins to y.outs, y.confidence is 0 and y leaves preferences); with
\* w.bias <= y.bias it changes nothing.
C30_RedirectOnlyOnHigherBias ==
    panicked = "" =>
        \A w \in txs : \A y \in fn[w].outs \cap txs :
            LET S == St(<<>>, <<>>)
                R == redirectEdge(S, w, y)
            IN IF fn[w].bias > fn[y].bias
               THEN /\ y \in R.fn[w].ins /\ y \notin R.fn[w].outs
                    /\ w \in R.fn[y].outs /\ w \notin R.fn[y].ins
                    /\ R.fn[y].confidence = 0
                    /\ y \notin R.preferences
               ELSE R = S

\* An edge w -> y of the graph whose ends have the same bias, after both won
\* polls, while y holds confidence.
C30_Witness ==
    /\ panicked = ""
    /\ \E w \in txs : \E y \in fn[w].outs \cap txs :
          fn[w].bias = fn[y].bias /\ fn[w].bias >= 1 /\ fn[y].confidence >= 1

\* C22: Initialize with parameters that violate a constraint (Alpha not in
\* (K/2, K], BetaVirtuous < 1, BetaRogue < BetaVirtuous, Parents < 2,
\* BatchSize < 1, ConcurrentRepolls not in [1, BetaRogue]) yields no usable
\* engine: an engine whose Initialize has returned, with its maps allocated,
\* holds parameters that satisfy every constraint.
C22_InvalidParametersFail ==
    initialized =>
        /\ 2 * params.Alpha > params.K /\ params.Alpha <= params.K
        /\ params.BetaVirtuous >= 1
        /\ params.BetaRogue >= params.BetaVirtuous
        /\ params.Parents >= 2
        /\ params.BatchSize >= 1
        /\ params.ConcurrentRepolls \in 1..params.BetaRogue

\* ---------------------------------------------------------------- C31

\* Directed.Conflicts for a node of the graph, by inputs: the transactions with
\* a node that share an input with t.
GraphConflicts(t) == {y \in txs : Conflicting(t, y)}

\* C31 as stated: a node has no out-edge iff no conflicting node has a
\* strictly higher bias.
C31_PreferredIffNoHigherBias ==
    panicked = "" =>
        \A t \in txs :
            (fn[t].outs = {}) <=> (\A y \in GraphConflicts(t) : fn[y].bias <= fn[t].bias)

\* C31: a node without out-edges has no conflicting node with a strictly
\* higher bias, and a node with out-edges has a conflicting node whose bias is
\* at least its own (on equal bias the edge keeps the direction it had).
C31_PreferredNoHigherBias ==
    panicked = "" =>
        \A t \in txs :
            /\ fn[t].outs = {} => \A y \in GraphConflicts(t) : fn[y].bias <= fn[t].bias
            /\ fn[t].outs # {} => \E y \in GraphConflicts(t) : fn[y].bias >= fn[t].bias

\* A node that overtook a conflict (the edge was inverted, its bias is the
\* higher one) beside a node that keeps an out-edge to a conflict of equal bias.
C31_Witness ==
    /\ panicked = ""
    /\ \E t \in txs : \E y \in GraphConflicts(t) :
           fn[t].outs = {} /\ y \in fn[t].ins /\ fn[y].bias < fn[t].bias
    /\ \E t \in txs : \E y \in fn[t].outs : y \in txs /\ fn[y].bias = fn[t].bias

\* ---------------------------------------------------------------- C32

\* C32 as stated: a node that won the last poll has a confidence equal to the
\* number of consecutive polls it has won and a bias equal to the number of
\* polls it has won since its Add.
C32_ConfidenceAndBiasCount ==
    panicked = "" =>
        \A t \in txs :
            streak[t] >= 1 => (fn[t].confidence = streak[t] /\ fn[t].bias = wins[t])

\* C32: the bias of a node is the number of polls it has won since its Add; the
\* confidence of a node that won the last poll is at least 1 and at most the
\* number of consecutive polls it has won, and equal to it when the node is
\* not rogue (redirectEdge sets the confidence of an overtaken conflict to 0).
C32_BiasCountsConfidenceBounded ==
    panicked = "" =>
        \A t \in txs :
            /\ fn[t].bias = wins[t]
            /\ streak[t] >= 1 =>
                   /\ 1 <= fn[t].confidence /\ fn[t].confidence <= streak[t]
                   /\ ~fn[t].rogue => fn[t].confidence = streak[t]

\* A node has just won its second poll in a row and its confidence is 1: a
\* conflict overtook it in that poll; the conflict's confidence is its streak.
C32_Witness ==
    /\ panicked = ""
    /\ \E t \in txs : \E y \in fn[t].outs :
           /\ y \in txs
           /\ streak[t] = 2 /\ fn[t].confidence = 1 /\ fn[t].bias = 2
           /\ streak[y] = 2 /\ fn[y].confidence = 2

\* ---------------------------------------------------------------- C33

\* C33: every id in a spender set of the UTXO index is a transaction with a
\* node in the graph that consumes that UTXO, and Add never meets a spender
\* without a node (the nil dereference at "conflict.rogue = true").
C33_SpendersHaveNodes ==
    /\ panicked = "" =>
           \A u \in Utxo : \A t \in utxos[u] : t \in txs /\ u \in inputs[t]
    /\ panicked # "Add"

\* ---------------------------------------------------------------- C34

\* C34 as stated: a transaction the accepter has just accepted has a
\* confidence of at least BetaVirtuous, and of at least BetaRogue if it is
\* rogue then.
C34_ConfidenceAtAccept ==
    [][\A t \in Tx :
          (~fn[t].accepted /\ fn'[t].accepted)
              => fn'[t].confidence >=
                     IF fn'[t].rogue THEN BetaRogue ELSE BetaVirtuous]_vars

\* C34: a transaction the accepter has just accepted had its acceptance
\* deferred with a confidence of at least BetaVirtuous, and of at least
\* BetaRogue if it was rogue at the deferral; a transaction that was rogue at
\* the deferral is rogue at the acceptance.
C34_ThresholdAtDeferral ==
    [][\A t \in Tx :
          (~fn[t].accepted /\ fn'[t].accepted)
              => /\ fn'[t].pendingAccept
                 /\ deferLog'[t].confidence >=
                        IF deferLog'[t].rogue THEN BetaRogue ELSE BetaVirtuous
                 /\ deferLog'[t].rogue => fn'[t].rogue]_vars

\* Not part of it: a transaction that is not rogue when the accepter accepts
\* it has a confidence of at least BetaVirtuous.  With BetaVirtuous = 1 every
\* node that was deferred has it; with BetaVirtuous = 2 a deferred
\* transaction that misses a poll and wins the next is accepted with
\* confidence 1.
C34_NonRogueAtBetaVirtuous ==
    [][\A t \in Tx :
          (~fn[t].accepted /\ fn'[t].accepted /\ ~fn'[t].rogue)
              => fn'[t].confidence >= BetaVirtuous]_vars

\* A transaction was accepted in an operation after the one that deferred it
\* (it waited on a dependency); it was not rogue at the deferral, is rogue at
\* the acceptance and has a confidence below BetaRogue.
C34_Witness ==
    /\ panicked = ""
    /\ \E t \in Created :
          /\ fn[t].accepted /\ status[t] = Accepted /\ deps[t] # {}
          /\ ~deferLog[t].rogue /\ fn[t].rogue
          /\ fn[t].confidence < BetaRogue
          /\ fn[t].lastVote < currentVote

\* ---------------------------------------------------------------- C35

\* C35: after every Add and every RecordPoll that returned nil, every edge
\* between two nodes of the graph points at the node whose bias is at least
\* that of the other: for x and y in the graph, y in x.outs implies
\* x.bias <= y.bias.
C35_EdgesPointToHigherBias ==
    (panicked = "" /\ ret = 0) =>
        \A x, y \in txs : y \in fn[x].outs => fn[x].bias <= fn[y].bias

\* ---------------------------------------------------------------- C36

\* C36: two distinct nodes of the graph share an input iff there is exactly
\* one edge between them: y is in x.outs or in x.ins, never in both.
C36_EdgeIffSharedInput ==
    panicked = "" =>
        \A x, y \in txs :
            x # y =>
                (Conflicting(x, y) <=>
                     /\ y \in fn[x].outs \/ y \in fn[x].ins
                     /\ ~(y \in fn[x].outs /\ y \in fn[x].ins))

\* Two nodes of the graph share an input and are joined by one edge, which a
\* poll has inverted (it leaves the node added first); two nodes of the graph
\* share no input and have no edge.
C36_Witness ==
    /\ panicked = ""
    /\ \E x, y \in txs :
          /\ x < y /\ Conflicting(x, y)
          /\ y \in fn[x].outs /\ y \notin fn[x].ins
    /\ \E x, y \in txs :
          x # y /\ ~Conflicting(x, y) /\ y \notin fn[x].outs \cup fn[x].ins

\* ---------------------------------------------------------------- C37

\* C37: the state reached by RecordPoll (statuses, nodes of the graph with
\* their edges, bias and confidence, preferences, virtuous sets) does not
\* depend on the order in which the winners of the bag are processed: in
\* every state where a poll can be recorded, every bag yields the same state
\* under every iteration order of its winners.
C37_PollOrderIndependent ==
    (panicked = "" /\ currentVote < MaxVote) =>
        \A votes \in [Tx -> VoteCounts] :
            LET Reached(o) ==
                    LET R == RecordPoll(StPoll(o), votes)
                    IN <<R.status, R.txs,
                         [t \in Tx |-> IF t \in R.txs THEN R.fn[t] ELSE ZeroNode],
                         R.preferences, R.virtuous, R.virtuousVoting, R.panicked>>
            IN \A o1, o2 \in PollOrders(votes) : Reached(o1) = Reached(o2)

\* ---------------------------------------------------------------- C38

\* C38: virtuousVoting is a subset of virtuous; no transaction whose
\* pendingAccept flag is set is in virtuousVoting; a transaction of the graph
\* is in virtuousVoting exactly when it is neither rogue nor pendingAccept.
C38_VirtuousVoting ==
    panicked = "" =>
        /\ virtuousVoting \subseteq virtuous
        /\ \A t \in Tx : fn[t].pendingAccept => t \notin virtuousVoting
        /\ \A t \in txs :
               t \in virtuousVoting <=> (~fn[t].rogue /\ ~fn[t].pendingAccept)

\* The graph holds a virtuous transaction whose acceptance is deferred (it is
\* still in virtuous and has left virtuousVoting) and a transaction that is
\* neither rogue nor deferred, in virtuousVoting.
C38_Witness ==
    /\ panicked = ""
    /\ \E t \in txs :
          /\ fn[t].pendingAccept /\ ~fn[t].rogue
          /\ t \in virtuous /\ t \notin virtuousVoting
    /\ \E t \in txs :
          ~fn[t].rogue /\ ~fn[t].pendingAccept /\ t \in virtuousVoting

\* ---------------------------------------------------------------- C39

\* C39: the rogue flag is monotone. Once a transaction of the graph has been
\* marked rogue, the flag is never cleared (fn[t] keeps the last contents of
\* a node that has left the graph), the transaction is never again in
\* virtuous or virtuousVoting, and IsVirtuous never again returns true for
\* it.
C39_RogueMonotone ==
    /\ [][\A t \in Tx : fn[t].rogue => fn'[t].rogue]_vars
    /\ [](panicked = "" =>
            \A t \in Tx :
                fn[t].rogue =>
                    /\ t \notin virtuous /\ t \notin virtuousVoting
                    /\ ~IsVirtuous(St(<<>>, <<>>), t))

\* C39, amended: once a transaction of the graph has been marked rogue, the
\* flag is never cleared and the transaction is never again in virtuous or
\* virtuousVoting; IsVirtuous returns false for it as long as it has a node,
\* also when none of its conflicts is left in the graph.
C39_RogueMonotoneInGraph ==
    /\ [][\A t \in Tx : fn[t].rogue => fn'[t].rogue]_vars
    /\ [](panicked = "" =>
            \A t \in Tx :
                fn[t].rogue =>
                    /\ t \notin virtuous /\ t \notin virtuousVoting
                    /\ t \in txs => ~IsVirtuous(St(<<>>, <<>>), t))

\* A rogue transaction is in the graph after its only conflict was rejected:
\* it has no edge left, and a Rejected transaction shares an input with it.
C39_Witness ==
    /\ panicked = ""
    /\ \E t \in txs :
          /\ fn[t].rogue /\ GraphConflicts(t) = {}
          /\ fn[t].ins = {} /\ fn[t].outs = {}
          /\ \E c \in Tx : c # t /\ Conflicting(c, t) /\ status[c] = "Rejected"

\* ---------------------------------------------------------------- C40

\* C40: for every node of the graph, after every operation,
\* 0 <= confidence <= bias <= currentVote and 0 <= lastVote <= currentVote;
\* currentVote is the number of RecordPoll calls made since Initialize: it is
\* 0 at first, every RecordPoll adds one to it and no Add changes it.
C40_CountersBounded ==
    /\ currentVote = 0
    /\ [][/\ lastOp' \in {"Poll", "PollNone", "PollNoNode"}
                => currentVote' = currentVote + 1
          /\ lastOp' \in {"AddNew", "AddAgain"}
                => currentVote' = currentVote]_vars
    /\ [](panicked = "" =>
            \A t \in txs :
                /\ 0 <= fn[t].confidence
                /\ fn[t].confidence <= fn[t].bias
                /\ fn[t].bias <= currentVote
                /\ 0 <= fn[t].lastVote
                /\ fn[t].lastVote <= currentVote)

\* After a poll, a node of the graph has won two of the three polls recorded
\* and not the one before the last (confidence 1, bias 2, currentVote 3), and
\* another node of the graph did not win the last poll.
C40_Witness ==
    /\ panicked = "" /\ lastOp = "Poll"
    /\ \E t \in txs :
          /\ 0 < fn[t].confidence /\ fn[t].confidence < fn[t].bias
          /\ fn[t].bias < currentVote /\ fn[t].lastVote = currentVote
    /\ \E t \in txs : fn[t].lastVote < currentVote

====
